---- MODULE Spec2Model ----
(***************************************************************************)
(* Model of main.py: the in-memory user store (fake_users_db), the vector  *)
(* index registry (vector_stores), the temporary files under /tmp and the  *)
(* five request handlers.  create_user, login_for_access_token and         *)
(* read_users are plain functions, which the framework runs on worker      *)
(* threads, so their reads and writes of the shared list interleave.       *)
(* upload_pdf and chat_with_bot are coroutines on the event loop: they     *)
(* give up control only at their await.                                    *)
(***************************************************************************)
EXTENDS Integers, Sequences, FiniteSets, TLC

\* ---- bounds --------------------------------------------------------------
MaxRequests == 4

\* ---- input domains -------------------------------------------------------
Reqs == {"r1", "r2"}
Emails == {"a@x.com", "b@x.com"}
Passwords == {"pw123", "wrong"}
\* the UserCreate bodies sent to /register
Registrations ==
    {[company_name |-> "Acme", email |-> "a@x.com", password |-> "pw123"],
     [company_name |-> "Acme", email |-> "a@x.com", password |-> "wrong"],
     [company_name |-> "Acme", email |-> "b@x.com", password |-> "pw123"]}
Salts == {"s1"}
ContentTypes == {"application/pdf", "text/plain"}
FileNames == {"doc.pdf"}
Pdfs == {"D1", "D2"}
Questions == {"q"}
UserIdInputs == {1, 2, 3}

VARIABLES fake_users_db, vector_stores, tmp, req, nreq

vars == <<fake_users_db, vector_stores, tmp, req, nreq>>

\* ---- values --------------------------------------------------------------
NoHash == [salt |-> "", digest |-> <<>>]
NoUser == [id |-> 0, company_name |-> "", email |-> "", hashed_password |-> NoHash]
NoStore == [built |-> FALSE, chunks |-> {}]
NoUserOut == [id |-> 0, company_name |-> "", email |-> ""]

\* pwd_context.hash: a salted one-way digest of the password
get_password_hash(password, salt) ==
    [salt |-> salt, digest |-> <<salt, password>>]

\* pwd_context.verify: recompute the digest under the stored salt
verify_password(plain_password, hashed_password) ==
    get_password_hash(plain_password, hashed_password.salt).digest
        = hashed_password.digest

\* response_model=UserOut: the record without its password hash
UserOut(u) == [id |-> u.id, company_name |-> u.company_name, email |-> u.email]

\* the HTTPException values raised by the handlers
DuplicateEmail == [status |-> 400, detail |-> "email already used"]
InvalidCredentials == [status |-> 401, detail |-> "email or password incorrect"]
UserNotFound == [status |-> 404, detail |-> "user not found"]
UnsupportedContentType == [status |-> 400, detail |-> "pdf only"]
ProcessingError == [status |-> 500, detail |-> "processing error"]
NoIndexFound == [status |-> 404, detail |-> "no training data"]
GenerationError == [status |-> 500, detail |-> "generation error"]

\* a request slot with no request in it.  Besides the request's fields and the
\* handler's locals a slot records what the request did: dup (the email was in
\* the store when the register request arrived), wrote (upload wrote its
\* temporary file), replaced (the registry entry upload overwrote), ext (chat
\* called the model provider)
Idle ==
    [kind |-> "none", pc |-> "idle",
     company_name |-> "", email |-> "", password |-> "",
     user_id |-> 0, content_type |-> "", filename |-> "", pdf |-> "",
     question |-> "",
     i |-> 0, new_user |-> NoUser, user |-> NoUser,
     vector_store |-> NoStore, retrieved |-> {},
     dup |-> FALSE, wrote |-> FALSE, replaced |-> NoStore, ext |-> FALSE,
     status |-> 0, detail |-> "",
     out_user |-> NoUserOut, token_id |-> 0, token_type |-> "",
     users |-> <<>>]

Init ==
    /\ fake_users_db = <<>>
    /\ vector_stores = <<>>
    /\ tmp = <<>>
    /\ req = [r \in Reqs |-> Idle]
    /\ nreq = 0

\* raise HTTPException(e): the request ends with that status and detail
Raise(q, e) ==
    [q EXCEPT !.pc = "done", !.i = 0, !.status = e.status, !.detail = e.detail]

\* a request arrives at a free slot; the model serves MaxRequests requests
Arrive(r) ==
    /\ req[r].pc = "idle"
    /\ nreq < MaxRequests
    /\ nreq' = nreq + 1

\* ---- POST /register ------------------------------------------------------
RegisterBegin(r, user) ==
    /\ Arrive(r)
    /\ req' = [req EXCEPT ![r] = [Idle EXCEPT !.kind = "register", !.pc = "scan",
                 !.company_name = user.company_name, !.email = user.email,
                 !.password = user.password, !.i = 1,
                 !.dup = \E k \in 1..Len(fake_users_db) :
                            fake_users_db[k].email = user.email]]
    /\ UNCHANGED <<fake_users_db, vector_stores, tmp>>

\* db_user["company_name"] == user.email: the wrong key, which never matches
TakenWrongKey(db_user, q) == db_user.company_name = q.email

\* line 75: db_user["email"] == user.email
Taken(db_user, q) == db_user.email = q.email

\* one turn of `for db_user in fake_users_db`
RegisterScan(r) ==
    /\ req[r].kind = "register" /\ req[r].pc = "scan"
    /\ LET q == req[r] IN
       req' = [req EXCEPT ![r] =
                 IF q.i > Len(fake_users_db) THEN [q EXCEPT !.pc = "hash"]
                 ELSE IF Taken(fake_users_db[q.i], q) THEN Raise(q, DuplicateEmail)
                 ELSE [q EXCEPT !.i = q.i + 1]]
    /\ UNCHANGED <<fake_users_db, vector_stores, tmp, nreq>>

\* hashed_password = ...; new_user = {"id": len(fake_users_db) + 1, ...}
RegisterHash(r) ==
    /\ req[r].kind = "register" /\ req[r].pc = "hash"
    /\ \E salt \in Salts :
         LET q == req[r] IN
         req' = [req EXCEPT ![r] = [q EXCEPT !.pc = "append", !.i = 0,
                   !.new_user = [id |-> Len(fake_users_db) + 1,
                                 company_name |-> q.company_name,
                                 email |-> q.email,
                                 hashed_password |-> get_password_hash(q.password, salt)]]]
    /\ UNCHANGED <<fake_users_db, vector_stores, tmp, nreq>>

\* the duplicate check repeated under the append, as a guarded store would
RegisterAppendChecked(r) ==
    /\ req[r].kind = "register" /\ req[r].pc = "append"
    /\ IF \E k \in 1..Len(fake_users_db) : Taken(fake_users_db[k], req[r])
       THEN /\ fake_users_db' = fake_users_db
            /\ req' = [req EXCEPT ![r] = Raise(req[r], DuplicateEmail)]
       ELSE /\ fake_users_db' = Append(fake_users_db, req[r].new_user)
            /\ req' = [req EXCEPT ![r] = [req[r] EXCEPT !.pc = "done", !.status = 201,
                         !.out_user = UserOut(req[r].new_user)]]
    /\ UNCHANGED <<vector_stores, tmp, nreq>>

\* fake_users_db.append(new_user); return new_user
RegisterAppend(r) ==
    /\ req[r].kind = "register" /\ req[r].pc = "append"
    /\ fake_users_db' = Append(fake_users_db, req[r].new_user)
    /\ req' = [req EXCEPT ![r] = [req[r] EXCEPT !.pc = "done", !.status = 201,
                 !.out_user = UserOut(req[r].new_user)]]
    /\ UNCHANGED <<vector_stores, tmp, nreq>>

\* ---- POST /login ---------------------------------------------------------
LoginBegin(r, email, password) ==
    /\ Arrive(r)
    /\ req' = [req EXCEPT ![r] = [Idle EXCEPT !.kind = "login", !.pc = "scan",
                 !.email = email, !.password = password, !.i = 1]]
    /\ UNCHANGED <<fake_users_db, vector_stores, tmp>>

\* an unknown email answered with its own error
LoginResultLeaky(q, user) ==
    IF user = NoUser THEN Raise([q EXCEPT !.user = user], UserNotFound)
    ELSE IF ~verify_password(q.password, user.hashed_password)
    THEN Raise([q EXCEPT !.user = user], InvalidCredentials)
    ELSE [q EXCEPT !.pc = "done", !.i = 0, !.user = user, !.status = 200,
            !.token_id = user.id, !.token_type = "bearer"]

\* lines 87-90, once `user` is bound
LoginResult(q, user) ==
    IF user = NoUser \/ ~verify_password(q.password, user.hashed_password)
    THEN Raise([q EXCEPT !.user = user], InvalidCredentials)
    ELSE [q EXCEPT !.pc = "done", !.i = 0, !.user = user, !.status = 200,
            !.token_id = user.id, !.token_type = "bearer"]

\* one turn of the generator inside next(..., None), then the rest of the body
LoginScan(r) ==
    /\ req[r].kind = "login" /\ req[r].pc = "scan"
    /\ LET q == req[r] IN
       req' = [req EXCEPT ![r] =
                 IF q.i > Len(fake_users_db) THEN LoginResult(q, NoUser)
                 ELSE IF fake_users_db[q.i].email = q.email
                      THEN LoginResult(q, fake_users_db[q.i])
                 ELSE [q EXCEPT !.i = q.i + 1]]
    /\ UNCHANGED <<fake_users_db, vector_stores, tmp, nreq>>

\* ---- GET /users ----------------------------------------------------------
read_users(r) ==
    /\ Arrive(r)
    /\ req' = [req EXCEPT ![r] = [Idle EXCEPT !.kind = "users", !.pc = "done",
                 !.status = 200,
                 !.users = [k \in 1..Len(fake_users_db) |-> UserOut(fake_users_db[k])]]]
    /\ UNCHANGED <<fake_users_db, vector_stores, tmp>>

\* ---- POST /upload --------------------------------------------------------
\* next((u for u in fake_users_db if u["id"] == user_id), None)
FindById(db, user_id) ==
    IF \E k \in 1..Len(db) : db[k].id = user_id
    THEN db[CHOOSE k \in 1..Len(db) :
                /\ db[k].id = user_id
                /\ \A j \in 1..(k - 1) : db[j].id # user_id]
    ELSE NoUser

\* dict / directory update: bind key to value, keep the other keys
Put(f, key, value) ==
    [x \in (DOMAIN f) \cup {key} |-> IF x = key THEN value ELSE f[x]]

\* os.remove(path)
Remove(f, key) == [x \in (DOMAIN f) \ {key} |-> f[x]]

\* PyPDFLoader(path).load(): the pages of the file's content
Pages(pdf) ==
    IF pdf = "D1" THEN <<"D1-p1", "D1-p2">> ELSE <<"D2-p1">>

\* RecursiveCharacterTextSplitter.split_documents: the chunks of the pages
split_documents(documents) ==
    {[page |-> documents[k], part |-> 1] : k \in DOMAIN documents}

\* Chroma.from_documents(texts, embeddings): a fresh index over texts
from_documents(texts) == [built |-> TRUE, chunks |-> texts]

\* the new chunks added to the user's earlier index
NewEntryMerged(old, vector_store) ==
    [built |-> TRUE, chunks |-> old.chunks \cup vector_store.chunks]

\* line 124: the value bound to user_id
NewEntry(old, vector_store) == vector_store

\* only the user is checked
UploadCheckNoType(q) ==
    IF q.user = NoUser THEN Raise(q, UserNotFound)
    ELSE [q EXCEPT !.pc = "read"]

\* only the content type is checked
UploadCheckNoUser(q) ==
    IF q.content_type # "application/pdf" THEN Raise(q, UnsupportedContentType)
    ELSE [q EXCEPT !.pc = "read"]

\* lines 97-101: the two checks before the try block
UploadCheck(q) ==
    IF q.user = NoUser THEN Raise(q, UserNotFound)
    ELSE IF q.content_type # "application/pdf" THEN Raise(q, UnsupportedContentType)
    ELSE [q EXCEPT !.pc = "read"]

\* lines 96-105: the two checks, then the coroutine waits on file.read()
UploadStart(r, user_id, content_type, filename, pdf) ==
    /\ Arrive(r)
    /\ LET q == [Idle EXCEPT !.kind = "upload", !.user_id = user_id,
                   !.content_type = content_type, !.filename = filename,
                   !.pdf = pdf,
                   !.user = FindById(fake_users_db, user_id)] IN
       req' = [req EXCEPT ![r] = UploadCheck(q)]
    /\ UNCHANGED <<fake_users_db, vector_stores, tmp>>

\* the calls inside the try block, in order; any of them may raise
UploadSteps == <<"read", "open", "write", "load", "split", "embed", "index", "remove">>
StepNo(s) == CHOOSE k \in DOMAIN UploadSteps : UploadSteps[k] = s
UploadFailures == {UploadSteps[k] : k \in DOMAIN UploadSteps} \cup {"none"}
Done(fail, s) == fail = "none" \/ StepNo(fail) > StepNo(s)

\* lines 105-131, from the resumption after file.read() to the response;
\* `fail` is the call that raises, if any
UploadProcess(r, fail) ==
    /\ req[r].kind = "upload" /\ req[r].pc = "read"
    /\ LET q == req[r]
           texts == split_documents(Pages(q.pdf))
           old == IF q.user_id \in DOMAIN vector_stores
                  THEN vector_stores[q.user_id] ELSE NoStore
           written == IF Done(fail, "write") THEN Put(tmp, q.filename, q.pdf)
                      ELSE IF Done(fail, "open") THEN Put(tmp, q.filename, "")
                      ELSE tmp
       IN
       /\ tmp' = IF Done(fail, "remove") THEN Remove(written, q.filename) ELSE written
       /\ vector_stores' =
            IF Done(fail, "index")
            THEN Put(vector_stores, q.user_id, NewEntry(old, from_documents(texts)))
            ELSE vector_stores
       /\ req' = [req EXCEPT ![r] =
                    IF fail = "none"
                    THEN [q EXCEPT !.pc = "done", !.wrote = TRUE, !.replaced = old,
                            !.status = 200, !.detail = "learned"]
                    ELSE Raise([q EXCEPT !.wrote = Done(fail, "open"),
                                  !.replaced = IF Done(fail, "index") THEN old
                                               ELSE NoStore],
                               ProcessingError)]
    /\ UNCHANGED <<fake_users_db, nreq>>

\* ---- POST /chat ----------------------------------------------------------
\* the model client built before the lookup
ChatLookupEager(q) ==
    IF q.vector_store = NoStore THEN Raise([q EXCEPT !.ext = TRUE], NoIndexFound)
    ELSE [q EXCEPT !.pc = "ainvoke", !.ext = TRUE]

\* lines 142-157, once `vector_store` is bound: the 404, or the model client,
\* the chain and the call of ainvoke
ChatLookup(q) ==
    IF q.vector_store = NoStore THEN Raise(q, NoIndexFound)
    ELSE [q EXCEPT !.pc = "ainvoke", !.ext = TRUE]

\* lines 137-157: the lookup, the chain, then the coroutine waits on ainvoke
ChatStart(r, user_id, question) ==
    /\ Arrive(r)
    /\ LET q == [Idle EXCEPT !.kind = "chat", !.user_id = user_id,
                   !.question = question,
                   !.vector_store = IF user_id \in DOMAIN vector_stores
                                    THEN vector_stores[user_id] ELSE NoStore] IN
       req' = [req EXCEPT ![r] = ChatLookup(q)]
    /\ UNCHANGED <<fake_users_db, vector_stores, tmp>>

\* lines 157-162: the chain retrieves from its retriever's index and answers,
\* or raises
ChatFinish(r, ok) ==
    /\ req[r].kind = "chat" /\ req[r].pc = "ainvoke"
    /\ \E retrieved \in (SUBSET req[r].vector_store.chunks) \ {{}} :
         req' = [req EXCEPT ![r] =
                   IF ok THEN [req[r] EXCEPT !.pc = "done", !.status = 200,
                                 !.retrieved = retrieved]
                   ELSE Raise(req[r], GenerationError)]
    /\ UNCHANGED <<fake_users_db, vector_stores, tmp, nreq>>

\* the response has been sent; the slot takes the next request
Reset(r) ==
    /\ req[r].pc = "done"
    /\ req' = [req EXCEPT ![r] = Idle]
    /\ UNCHANGED <<fake_users_db, vector_stores, tmp, nreq>>

Next ==
    \/ \E r \in Reqs, user \in Registrations : RegisterBegin(r, user)
    \/ \E r \in Reqs : RegisterScan(r)
    \/ \E r \in Reqs : RegisterHash(r)
    \/ \E r \in Reqs : RegisterAppend(r)
    \/ \E r \in Reqs, e \in Emails, p \in Passwords : LoginBegin(r, e, p)
    \/ \E r \in Reqs : LoginScan(r)
    \/ \E r \in Reqs : read_users(r)
    \/ \E r \in Reqs, u \in UserIdInputs, c \in ContentTypes, f \in FileNames, d \in Pdfs :
         UploadStart(r, u, c, f, d)
    \/ \E r \in Reqs, fail \in UploadFailures : UploadProcess(r, fail)
    \/ \E r \in Reqs, u \in UserIdInputs, q \in Questions : ChatStart(r, u, q)
    \/ \E r \in Reqs, ok \in BOOLEAN : ChatFinish(r, ok)
    \/ \E r \in Reqs : Reset(r)

Spec == Init /\ [][Next]_vars

\* ---- helpers of the properties -------------------------------------------
Ids(db) == {db[k].id : k \in 1..Len(db)}

\* the k-th record is the first record of db holding email
First(db, email, k) ==
    /\ db[k].email = email
    /\ \A j \in 1..(k - 1) : db[j].email # email

\* what the caller of login sees
Response(q) ==
    [status |-> q.status, detail |-> q.detail,
     token_id |-> q.token_id, token_type |-> q.token_type]

IndexOf(pdf) == from_documents(split_documents(Pages(pdf)))

Entry(user_id) ==
    IF user_id \in DOMAIN vector_stores THEN vector_stores[user_id] ELSE NoStore

\* the step is the end of request r, of the given kind
Ends(r, kind) ==
    /\ req'[r].kind = kind
    /\ req[r].pc # "done"
    /\ req'[r].pc = "done"

\* the step is a step of request r, of the given kind
StepOf(r, kind) ==
    /\ req'[r] # req[r]
    /\ req[r].kind = kind \/ req'[r].kind = kind

\* ---- C1 ------------------------------------------------------------------
\* C1: a register request whose email is already held by a record of the
\* store when it arrives never gets past the scan, ends with the
\* duplicate-email error (400), and none of its steps changes the user store.
C1_DuplicateRejected ==
    /\ [](\A r \in Reqs :
            req[r].kind = "register" /\ req[r].dup =>
              /\ req[r].pc \in {"scan", "done"}
              /\ req[r].pc = "done" =>
                   /\ req[r].status = DuplicateEmail.status
                   /\ req[r].detail = DuplicateEmail.detail
                   /\ req[r].out_user = NoUserOut)
    /\ [][\A r \in Reqs :
            StepOf(r, "register") /\ (req[r].dup \/ req'[r].dup)
              => fake_users_db' = fake_users_db]_vars

\* a duplicate was rejected after the scan had passed over another record
C1_Witness ==
    \E r \in Reqs :
      /\ req[r].kind = "register" /\ req[r].dup /\ req[r].pc = "done"
      /\ req[r].status = 400
      /\ Len(fake_users_db) = 2
      /\ fake_users_db[1].email # req[r].email
      /\ fake_users_db[2].email = req[r].email

C3_TempFileRemoved ==
    (\A r \in Reqs : req[r].kind = "upload" => req[r].pc = "done")
      => DOMAIN tmp = {}

\* ---- C4 ------------------------------------------------------------------
\* C4: an upload request that ends in an error leaves the registry as it
\* was, and the registry changes only in the step that ends an upload
\* request with the success message.
C4_UploadAtomic ==
    [][/\ \A r \in Reqs :
            Ends(r, "upload") /\ req'[r].status # 200
              => vector_stores' = vector_stores
       /\ vector_stores' # vector_stores
            => \E r \in Reqs : Ends(r, "upload") /\ req'[r].status = 200]_vars

C6_ChatWithoutIndex ==
    /\ [][\A r \in Reqs :
            req[r].pc = "idle" /\ req'[r].kind = "chat"
              /\ req'[r].user_id \notin DOMAIN vector_stores =>
                 /\ req'[r].pc = "done"
                 /\ req'[r].status = NoIndexFound.status
                 /\ req'[r].detail = NoIndexFound.detail
                 /\ ~req'[r].ext]_vars
    /\ [][\A r \in Reqs :
            StepOf(r, "chat") =>
              /\ fake_users_db' = fake_users_db
              /\ vector_stores' = vector_stores]_vars

\* a user without an index was refused while another user has one
C6_Witness ==
    \E r \in Reqs :
      /\ req[r].kind = "chat" /\ req[r].pc = "done" /\ req[r].status = 404
      /\ ~req[r].ext
      /\ req[r].user_id \in Ids(fake_users_db)
      /\ req[r].user_id \notin DOMAIN vector_stores
      /\ DOMAIN vector_stores # {}

\* ---- C7 ------------------------------------------------------------------
\* C7: an upload request whose content type is not application/pdf has
\* ended with a 4xx error and has written no temporary file.
C7_NonPdfRejected ==
    \A r \in Reqs :
      req[r].kind = "upload" /\ req[r].content_type # "application/pdf" =>
        /\ req[r].pc = "done"
        /\ req[r].status \in {400, 404}
        /\ ~req[r].wrote

\* a non-PDF upload of a stored user was refused with nothing on disk
C7_Witness ==
    \E r \in Reqs :
      /\ req[r].kind = "upload" /\ req[r].content_type = "text/plain"
      /\ req[r].user # NoUser
      /\ req[r].pc = "done" /\ req[r].status = 400 /\ ~req[r].wrote
      /\ DOMAIN tmp = {}

\* ---- C8 ------------------------------------------------------------------
\* C8: every key of the registry is the identifier of a stored record.
C8_KeysAreUsers == DOMAIN vector_stores \subseteq Ids(fake_users_db)

\* an index is registered and an upload for an unknown user was refused
C8_Witness ==
    /\ DOMAIN vector_stores # {}
    /\ \E r \in Reqs :
         /\ req[r].kind = "upload" /\ req[r].pc = "done" /\ req[r].status = 404
         /\ req[r].user_id \notin Ids(fake_users_db)

\* ---- C9 ------------------------------------------------------------------
\* C9: nothing stands between the end of the scan and the append: a register
\* request that has left the scan computes its record and appends it, ending
\* with 201, whatever the store holds by then, so two requests with one email
\* that are both past the scan both succeed.
C9_RaceWindow ==
    [][\A r \in Reqs :
         req[r].kind = "register" /\ req[r].pc \in {"hash", "append"}
           /\ req'[r] # req[r] =>
              \/ req[r].pc = "hash" /\ req'[r].pc = "append"
                   /\ req'[r].new_user.email = req[r].email
              \/ req[r].pc = "append" /\ req'[r].pc = "done"
                   /\ req'[r].status = 201
                   /\ fake_users_db' = Append(fake_users_db, req[r].new_user)]_vars

\* both requests succeeded and the store holds their email twice
C9_Witness ==
    /\ \A r \in Reqs :
         req[r].kind = "register" /\ req[r].pc = "done" /\ req[r].status = 201
    /\ \E r1, r2 \in Reqs : r1 # r2 /\ req[r1].email = req[r2].email
    /\ Len(fake_users_db) = 2
    /\ fake_users_db[1].email = fake_users_db[2].email

\* ---- C10 -----------------------------------------------------------------
\* C10: the k-th record of the user store has identifier k.
C10_SequentialIds ==
    \A k \in 1..Len(fake_users_db) : fake_users_db[k].id = k
====
